---- MODULE Spec2Model ----
(***************************************************************************)
(* UE-DevUtilities: the memory usage tracker (UMemoryUsageTracker) and the *)
(* gameplay event logger (UGameplayEventLogger) as state machines.         *)
(*                                                                         *)
(* Time is counted in units of 0.01 s, the floor StartTracking clamps to.  *)
(* Objects are identified by small integers; NULL is the null pointer.     *)
(* A tracked handle (TWeakObjectPtr) is the identity of its referent; it   *)
(* resolves to the referent while the referent is live and to NULL after.  *)
(*                                                                         *)
(* The event logger (UGameplayEventLogger) is followed statement by        *)
(* statement for several threads; an FString is a sequence of characters.  *)
(***************************************************************************)
EXTENDS Integers, Sequences, FiniteSets, TLC

\* ---------------------------------------------------------------- bounds
\* Number of objects of the host object system.
MaxObjects == 2
\* Longest tracked array the model lets RegisterObject build.
MaxTracked == 3
\* Largest accumulator value kept between ticks (larger sums are reached
\* only inside a tick that samples and resets).
MaxAccum == 2

\* Number of objects of the reference graphs CountReferencedObjects is run on.
MaxHeapObjects == 3
\* Most references (set reference fields and sequence elements) in such a graph.
MaxRefs == 3

\* Number of threads calling the event logger.
MaxThreads == 2
\* Longest event log the model lets LogEvent build.
MaxLog == 2
\* Latest simulated time the world's clock reaches.
MaxGameTime == 1

\* Longest name or context of the logs that are exported and read back, and
\* the most entries of such a log.
MaxChars == 2
MaxRows == 2

\* ------------------------------------------------------ program constants
\* SampleInterval = 5.0f, in units of 0.01 s.
DefaultSampleInterval == 500
\* FMath::Max(SamplingInterval, 0.01f), in units of 0.01 s.
MinSampleInterval == 1
\* sizeof(*Object): the fixed per-object base overhead (bytes).
UObjectBaseSize == 40
\* sizeof(UObject*): the element size of an array of object references.
PointerSize == 8

NULL == 0
Objects == 1..MaxObjects
HeapObjects == 1..MaxHeapObjects

\* The threads that call the event logger.
Threads == 1..MaxThreads
\* The characters of an FString; a double quote, a comma, a line break.
Quote == "\""
Comma == ","
LineBreak == "\n"
\* An FString is a sequence of characters.
Str(c1, c2) == <<c1, c2>>
EmptyString == <<>>
\* The names, contexts and search terms the callers pass.
EventNames == {EmptyString, <<"A">>, Str("a", "b")}
Contexts == {EmptyString, Str("B", "a")}
SearchTerms == {EmptyString, <<"B">>, Str("b", "a")}

NoLocals == [op |-> "none", Entry |-> <<>>, SearchTerm |-> <<>>, Index |-> 0, Seen |-> <<>>]
\* The step just taken returned nothing and called no SaveStringToFile; a
\* returning step gives the thread, the operation, the value and, for each
\* SaveStringToFile call it made, the text and whether it was saved.
NoOutput == [t |-> NULL, op |-> "none", value |-> <<>>, saves |-> <<>>]

\* DeltaTime values the scheduler passes to TickComponent.
DeltaTimes == {0, 1, DefaultSampleInterval}
\* Arguments given to StartTracking: negative, zero, the floor, above it.
StartArgs == {-1, 0, 1, 2}

VARIABLES
    TrackedObjects,     \* TArray<TWeakObjectPtr<UObject>>: sequence of handles
    CachedMemoryInfo,   \* TArray<FMemoryUsageInfo>: sequence of records
    TimeAccumulator,    \* float TimeAccumulator
    SampleInterval,     \* float SampleInterval
    bTickEnabled,       \* SetComponentTickEnabled's flag
    bHasBegunPlay,      \* between BeginPlay and EndPlay
    alive,              \* host object system: alive[o] iff o is not destroyed
    fields,             \* host reflection: fields[o] is o's property list
    lastPass,           \* history: the records the last completed pass produced
    sinceStart,         \* history: the ticks since the last StartTracking call
    walkPc,             \* one CountReferencedObjects call: "idle", "walking", "done"
    walkRoot,           \* the Object argument of the top-level call
    callStack,          \* the frames of the recursive calls, innermost last
    VisitedSet,         \* TSet<UObject*> VisitedSet of the top-level call
    walkResult,         \* the value the top-level call returned
    entered,            \* history: how often each object's field loop was entered
    steps,              \* history: the steps the call has taken
    EventLog,           \* TArray<FGameplayEventEntry> EventLog
    Mutex,              \* FCriticalSection Mutex: the thread inside, NULL if free
    pc,                 \* pc[t]: the statement thread t is at in its logger call
    local,              \* local[t]: arguments and locals of thread t's call
    out,                \* what the step just taken returned and saved, if it did
    GameTime,           \* GetWorld()->GetTimeSeconds(), in units of 0.001 s
    liveAppends         \* history: EventLog.Add calls completed since the last Empty

samplerVars == <<TrackedObjects, CachedMemoryInfo, TimeAccumulator, SampleInterval,
                 bTickEnabled, bHasBegunPlay, alive, lastPass, sinceStart>>

walkVars == <<walkPc, walkRoot, callStack, VisitedSet, walkResult, entered, steps>>

logVars == <<EventLog, Mutex, pc, local, out, GameTime, liveAppends>>

vars == <<samplerVars, fields, walkVars, logVars>>

\* ------------------------------------------------------- host object system
\* TWeakObjectPtr::Get(): the referent while it is live, else nullptr.
Get(WeakObj) == IF alive[WeakObj] THEN WeakObj ELSE NULL

\* UObject::GetName().
GetName(Obj) == <<"Object", Obj>>

\* TArray::RemoveAtSwap(Index): the last element takes the removed one's place.
RemoveAtSwap(Array, Index) ==
    IF Index = Len(Array)
    THEN SubSeq(Array, 1, Len(Array) - 1)
    ELSE [i \in 1..(Len(Array) - 1) |-> IF i = Index THEN Array[Len(Array)] ELSE Array[i]]

\* ------------------------------------------------------------- reflection
\* A reflected property (FProperty) of an object, with its value in that object:
\*   kind  "Object" (FObjectPropertyBase), "Array" (FArrayProperty),
\*         "Str" (FStrProperty), "Name" (FNameProperty), "Pod" (anything else)
\*   inner the kind of an array's Inner property
\*   value the referenced object of an "Object" property (NULL when unset)
\*   elems the elements of an "Array" (referenced objects when inner = "Object")
\*   size  ElementSize; for "Str" the string's GetAllocatedSize()
ObjectProp(ref) ==
    [kind |-> "Object", inner |-> "", value |-> ref, elems |-> <<>>, size |-> PointerSize]
ObjectArrayProp(refs) ==
    [kind |-> "Array", inner |-> "Object", value |-> NULL, elems |-> refs, size |-> PointerSize]
PodArrayProp(num, elemSize) ==
    [kind |-> "Array", inner |-> "Pod", value |-> NULL, elems |-> [i \in 1..num |-> 0],
     size |-> elemSize]
StrProp(allocated) ==
    [kind |-> "Str", inner |-> "", value |-> NULL, elems |-> <<>>, size |-> allocated]
NameProp ==
    [kind |-> "Name", inner |-> "", value |-> NULL, elems |-> <<>>, size |-> PointerSize]
PodProp(width) ==
    [kind |-> "Pod", inner |-> "", value |-> NULL, elems |-> <<>>, size |-> width]

\* One property's contribution to CalculateMemoryUsage's TotalSize.
PropertySize(Property) ==
    IF Property.kind = "Array" THEN Len(Property.elems) * Property.size
    ELSE IF Property.kind = "Str" THEN Property.size
    ELSE IF Property.kind = "Name" THEN 0
    ELSE IF Property.kind = "Object" THEN 0
    ELSE Property.size

RECURSIVE SumProperties(_, _)
SumProperties(Props, p) ==
    IF p > Len(Props) THEN 0
    ELSE PropertySize(Props[p]) + SumProperties(Props, p + 1)

\* A deep estimate: the objects that the reference fields point to are
\* added to their owner's size.
RECURSIVE SumReferenced(_, _)
SumReferenced(Props, p) ==
    IF p > Len(Props) THEN 0
    ELSE (IF Props[p].kind = "Object" /\ Props[p].value # NULL
          THEN UObjectBaseSize + SumProperties(fields[Props[p].value], 1)
          ELSE 0)
         + SumReferenced(Props, p + 1)

CalculateMemoryUsageDeep(Object) ==
    IF Object = NULL THEN 0
    ELSE UObjectBaseSize + SumProperties(fields[Object], 1) + SumReferenced(fields[Object], 1)

\* UMemoryUsageTracker::CalculateMemoryUsage.
CalculateMemoryUsage(Object) ==
    IF Object = NULL THEN 0
    ELSE UObjectBaseSize + SumProperties(fields[Object], 1)

\* UMemoryUsageTracker::CountReferencedObjects: the result is the returned
\* Count together with the Visited set as the call leaves it.
RECURSIVE CountReferencedObjects(_, _)
RECURSIVE CountProperties(_, _, _, _)
RECURSIVE CountElements(_, _, _, _)

\* The test "if (RefObject && !Visited.Contains(RefObject))" of both blocks.
ShouldFollow(RefObject, Visited) == RefObject # NULL /\ RefObject \notin Visited

\* The callee working on a copy of Visited: what it visits is lost on return.
CountReferenceByValue(RefObject, Count, Visited) ==
    IF ShouldFollow(RefObject, Visited)
    THEN [Count |-> Count + CountReferencedObjects(RefObject, Visited).Count,
          Visited |-> Visited]
    ELSE [Count |-> Count, Visited |-> Visited]

\* The body of both blocks: Visited is passed by reference, so the caller
\* goes on with the set as the callee left it.
CountReference(RefObject, Count, Visited) ==
    IF ShouldFollow(RefObject, Visited)
    THEN LET r == CountReferencedObjects(RefObject, Visited)
         IN  [Count |-> Count + r.Count, Visited |-> r.Visited]
    ELSE [Count |-> Count, Visited |-> Visited]

\* The loop over the elements of one array property, from Index on.
CountElements(Property, Index, Count, Visited) ==
    IF Index > Len(Property.elems) THEN [Count |-> Count, Visited |-> Visited]
    ELSE IF Property.inner = "Object"
    THEN LET r == CountReference(Property.elems[Index], Count, Visited)
         IN  CountElements(Property, Index + 1, r.Count, r.Visited)
    ELSE CountElements(Property, Index + 1, Count, Visited)

\* The loop over the object's properties, from the p-th on.
CountProperties(Object, p, Count, Visited) ==
    IF p > Len(fields[Object]) THEN [Count |-> Count, Visited |-> Visited]
    ELSE LET Property == fields[Object][p]
             r == IF Property.kind = "Object"
                  THEN CountReference(Property.value, Count, Visited)
                  ELSE IF Property.kind = "Array"
                  THEN CountElements(Property, 1, Count, Visited)
                  ELSE [Count |-> Count, Visited |-> Visited]
         IN  CountProperties(Object, p + 1, r.Count, r.Visited)

\* The guard of the early "return 0", negated: the call goes on to the body.
Enters(Object, Visited) == Object # NULL /\ Object \notin Visited

\* Visited.Add skipped: the object is not recorded before its fields are read.
MarkVisitedForgets(Visited, Object) == Visited

\* Visited.Add(Object), which precedes the loop over the fields.
MarkVisited(Visited, Object) == Visited \cup {Object}

CountReferencedObjects(Object, Visited) ==
    IF ~Enters(Object, Visited)
    THEN [Count |-> 0, Visited |-> Visited]
    ELSE CountProperties(Object, 1, 1, MarkVisited(Visited, Object))

\* ---------------------------------------------------------------- sampler
\* The FMemoryUsageInfo the sampling pass builds for a live object.
MemoryUsageInfo(Obj) ==
    [TrackedObject |-> Obj,
     ObjectName |-> GetName(Obj),
     MemoryBytes |-> CalculateMemoryUsage(Obj),
     NumReferencedObjects |-> CountReferencedObjects(Obj, {}).Count]

\* Faulty variant of ClearCachedInfo: the cache is not emptied before the pass.
ClearCachedInfoKeeps(Cache) == Cache

\* UMemoryUsageTracker::ClearCachedInfo: CachedMemoryInfo.Empty().
ClearCachedInfo(Cache) == <<>>

\* One visited set kept for the whole pass: an object counted for an earlier
\* record is not counted again for a later one.
RECURSIVE SampleLoopSharedVisited(_, _, _)
SampleLoopSharedVisited(Tracked, Cache, Index) ==
    IF Index < 1 THEN [TrackedObjects |-> Tracked, CachedMemoryInfo |-> Cache]
    ELSE IF Get(Tracked[Index]) # NULL
    THEN LET Obj == Get(Tracked[Index])
             Seen == UNION {CountReferencedObjects(Cache[i].TrackedObject, {}).Visited :
                               i \in DOMAIN Cache}
         IN  SampleLoopSharedVisited(
                 Tracked,
                 Append(Cache, [MemoryUsageInfo(Obj) EXCEPT
                                   !.NumReferencedObjects =
                                       CountReferencedObjects(Obj, Seen).Count]),
                 Index - 1)
    ELSE SampleLoopSharedVisited(RemoveAtSwap(Tracked, Index), Cache, Index - 1)

\* The loop of TickComponent, from Index down to the first element: a live
\* referent gets a record appended, any other handle is removed by swap.
RECURSIVE SampleLoop(_, _, _)
SampleLoop(Tracked, Cache, Index) ==
    IF Index < 1 THEN [TrackedObjects |-> Tracked, CachedMemoryInfo |-> Cache]
    ELSE IF Get(Tracked[Index]) # NULL
    THEN SampleLoop(Tracked, Append(Cache, MemoryUsageInfo(Get(Tracked[Index]))), Index - 1)
    ELSE SampleLoop(RemoveAtSwap(Tracked, Index), Cache, Index - 1)

\* Faulty variant of SamplingPass: the loop runs forward, so the element swapped into
\* a removed slot is never looked at.
RECURSIVE SampleLoopForward(_, _, _)
SampleLoopForward(Tracked, Cache, Index) ==
    IF Index > Len(Tracked) THEN [TrackedObjects |-> Tracked, CachedMemoryInfo |-> Cache]
    ELSE IF Get(Tracked[Index]) # NULL
    THEN SampleLoopForward(Tracked, Append(Cache, MemoryUsageInfo(Get(Tracked[Index]))),
                           Index + 1)
    ELSE SampleLoopForward(RemoveAtSwap(Tracked, Index), Cache, Index + 1)

SamplingPassForward(Tracked, Cache) ==
    SampleLoopForward(Tracked, ClearCachedInfo(Cache), 1)

\* One sampling pass: the cache is emptied, then the loop runs backward.
SamplingPass(Tracked, Cache) ==
    SampleLoop(Tracked, ClearCachedInfo(Cache), Len(Tracked))

\* TickComponent's early return.
TickReturnsEarly(Interval, Tracked) ==
    Interval <= 0 \/ Len(Tracked) = 0

\* TickComponent's "TimeAccumulator >= SampleInterval" after the addition.
SampleIsDue(DeltaTime) ==
    /\ ~TickReturnsEarly(SampleInterval, TrackedObjects)
    /\ TimeAccumulator + DeltaTime >= SampleInterval

\* The scheduler calls TickComponent only while the component is in play and
\* its tick is enabled (SetComponentTickEnabled).
TickIsScheduled == bTickEnabled /\ bHasBegunPlay

\* Faulty variant of TickResult: the time above the interval is carried into
\* the next period.
TickResultCarries(DeltaTime) ==
    IF TickReturnsEarly(SampleInterval, TrackedObjects)
    THEN [TimeAccumulator |-> TimeAccumulator, TrackedObjects |-> TrackedObjects,
          CachedMemoryInfo |-> CachedMemoryInfo, sampled |-> FALSE]
    ELSE IF TimeAccumulator + DeltaTime >= SampleInterval
    THEN [TimeAccumulator |-> TimeAccumulator + DeltaTime - SampleInterval,
          TrackedObjects |-> SamplingPass(TrackedObjects, CachedMemoryInfo).TrackedObjects,
          CachedMemoryInfo |-> SamplingPass(TrackedObjects, CachedMemoryInfo).CachedMemoryInfo,
          sampled |-> TRUE]
    ELSE [TimeAccumulator |-> TimeAccumulator + DeltaTime, TrackedObjects |-> TrackedObjects,
          CachedMemoryInfo |-> CachedMemoryInfo, sampled |-> FALSE]

\* What TickComponent(DeltaTime) leaves in the members it writes.
TickResult(DeltaTime) ==
    IF TickReturnsEarly(SampleInterval, TrackedObjects)
    THEN [TimeAccumulator |-> TimeAccumulator, TrackedObjects |-> TrackedObjects,
          CachedMemoryInfo |-> CachedMemoryInfo, sampled |-> FALSE]
    ELSE IF TimeAccumulator + DeltaTime >= SampleInterval
    THEN [TimeAccumulator |-> 0,
          TrackedObjects |-> SamplingPass(TrackedObjects, CachedMemoryInfo).TrackedObjects,
          CachedMemoryInfo |-> SamplingPass(TrackedObjects, CachedMemoryInfo).CachedMemoryInfo,
          sampled |-> TRUE]
    ELSE [TimeAccumulator |-> TimeAccumulator + DeltaTime, TrackedObjects |-> TrackedObjects,
          CachedMemoryInfo |-> CachedMemoryInfo, sampled |-> FALSE]

\* The history before any StartTracking call.
NotStarted ==
    [started |-> FALSE, resumed |-> FALSE, elapsed |-> 0, sampled |-> FALSE, over |-> FALSE]

\* The history after TickComponent(DeltaTime): until the first sampling pass
\* after StartTracking the ticked time adds up (MaxAccum + 1 stands for any
\* longer time); that pass ends the count. over: the pass found the
\* accumulator above the interval, not at it.
Elapsed(DeltaTime) ==
    IF ~sinceStart.started \/ sinceStart.sampled
    THEN sinceStart
    ELSE [sinceStart EXCEPT
            !.elapsed = IF @ + DeltaTime > MaxAccum THEN MaxAccum + 1 ELSE @ + DeltaTime,
            !.sampled = TickResult(DeltaTime).sampled,
            !.over = /\ TickResult(DeltaTime).sampled
                     /\ TimeAccumulator + DeltaTime > SampleInterval]

\* UMemoryUsageTracker::TickComponent, called by the scheduler while the
\* component's tick is enabled and the component is in play.
TickComponent(DeltaTime) ==
    /\ TickIsScheduled
    /\ TickResult(DeltaTime).TimeAccumulator <= MaxAccum
    /\ TimeAccumulator' = TickResult(DeltaTime).TimeAccumulator
    /\ TrackedObjects' = TickResult(DeltaTime).TrackedObjects
    /\ CachedMemoryInfo' = TickResult(DeltaTime).CachedMemoryInfo
    /\ lastPass' = IF TickResult(DeltaTime).sampled
                   THEN TickResult(DeltaTime).CachedMemoryInfo ELSE lastPass
    /\ sinceStart' = Elapsed(DeltaTime)
    /\ UNCHANGED <<SampleInterval, bTickEnabled, bHasBegunPlay, alive, fields>>
    /\ UNCHANGED <<walkVars, logVars>>

\* Faulty variant of ClampInterval: clamps at zero instead of the 0.01 floor.
ClampIntervalAtZero(SamplingInterval) ==
    IF SamplingInterval >= 0 THEN SamplingInterval ELSE 0

\* FMath::Max(SamplingInterval, 0.01f).
ClampInterval(SamplingInterval) ==
    IF SamplingInterval >= MinSampleInterval THEN SamplingInterval ELSE MinSampleInterval

\* The history of a StartTracking call that has just returned. resumed: the
\* call found the tick disabled, the component in play and time in the
\* accumulator, which is the state StopTracking leaves after ticks that
\* accumulated (BeginPlay would have zeroed it).
StartedNow ==
    [started |-> TRUE,
     resumed |-> ~bTickEnabled /\ bHasBegunPlay /\ TimeAccumulator > 0,
     elapsed |-> 0, sampled |-> FALSE, over |-> FALSE]

\* Faulty variant of StartTracking: the accumulator starts again from zero.
StartTrackingResets(SamplingInterval) ==
    /\ SampleInterval' = ClampInterval(SamplingInterval)
    /\ bTickEnabled' = TRUE
    /\ TimeAccumulator' = 0
    /\ sinceStart' = StartedNow
    /\ UNCHANGED <<TrackedObjects, CachedMemoryInfo, bHasBegunPlay,
                   alive, fields, lastPass>>
    /\ UNCHANGED <<walkVars, logVars>>

\* UMemoryUsageTracker::StartTracking.
StartTracking(SamplingInterval) ==
    /\ SampleInterval' = ClampInterval(SamplingInterval)
    /\ bTickEnabled' = TRUE
    /\ sinceStart' = StartedNow
    /\ UNCHANGED <<TrackedObjects, CachedMemoryInfo, TimeAccumulator, bHasBegunPlay,
                   alive, fields, lastPass>>
    /\ UNCHANGED <<walkVars, logVars>>

\* Faulty variant of StopTicking: the tick is left as it was.
StopTickingForgets == bTickEnabled

\* SetComponentTickEnabled(false).
StopTicking == FALSE

\* UMemoryUsageTracker::StopTracking.
StopTracking ==
    /\ bTickEnabled' = StopTicking
    /\ UNCHANGED <<TrackedObjects, CachedMemoryInfo, TimeAccumulator, SampleInterval,
                   bHasBegunPlay, alive, fields, lastPass, sinceStart>>
    /\ UNCHANGED <<walkVars, logVars>>

\* UMemoryUsageTracker::BeginPlay.
BeginPlay ==
    /\ ~bHasBegunPlay
    /\ bHasBegunPlay' = TRUE
    /\ TimeAccumulator' = 0
    /\ UNCHANGED <<TrackedObjects, CachedMemoryInfo, SampleInterval, bTickEnabled,
                   alive, fields, lastPass, sinceStart>>
    /\ UNCHANGED <<walkVars, logVars>>

\* UMemoryUsageTracker::EndPlay: StopTracking().
EndPlay ==
    /\ bHasBegunPlay
    /\ bHasBegunPlay' = FALSE
    /\ bTickEnabled' = StopTicking
    /\ UNCHANGED <<TrackedObjects, CachedMemoryInfo, TimeAccumulator, SampleInterval,
                   alive, fields, lastPass, sinceStart>>
    /\ UNCHANGED <<walkVars, logVars>>

\* RegisterObject's scan: some handle resolves to ObjectToTrack.
AlreadyTracked(Tracked, ObjectToTrack) ==
    \E i \in 1..Len(Tracked) : Get(Tracked[i]) = ObjectToTrack

\* Faulty variant of Registered: no scan for an existing handle.
RegisteredNoScan(Tracked, ObjectToTrack) ==
    IF ObjectToTrack = NULL THEN Tracked ELSE Append(Tracked, ObjectToTrack)

\* The tracked array RegisterObject leaves.
Registered(Tracked, ObjectToTrack) ==
    IF ObjectToTrack = NULL THEN Tracked
    ELSE IF AlreadyTracked(Tracked, ObjectToTrack) THEN Tracked
    ELSE Append(Tracked, ObjectToTrack)

\* UMemoryUsageTracker::RegisterObject.
RegisterObject(ObjectToTrack) ==
    /\ Len(Registered(TrackedObjects, ObjectToTrack)) <= MaxTracked
    /\ TrackedObjects' = Registered(TrackedObjects, ObjectToTrack)
    /\ UNCHANGED <<CachedMemoryInfo, TimeAccumulator, SampleInterval, bTickEnabled,
                   bHasBegunPlay, alive, fields, lastPass, sinceStart>>
    /\ UNCHANGED <<walkVars, logVars>>

\* Faulty variant of UnregisterLoop: compares the stored handle, not its live referent.
RECURSIVE UnregisterLoopByHandle(_, _, _)
UnregisterLoopByHandle(Tracked, ObjectToRemove, Index) ==
    IF Index < 1 THEN Tracked
    ELSE IF Tracked[Index] = ObjectToRemove THEN RemoveAtSwap(Tracked, Index)
    ELSE UnregisterLoopByHandle(Tracked, ObjectToRemove, Index - 1)

\* UnregisterObject's loop, from Index down to the first element.
RECURSIVE UnregisterLoop(_, _, _)
UnregisterLoop(Tracked, ObjectToRemove, Index) ==
    IF Index < 1 THEN Tracked
    ELSE IF Get(Tracked[Index]) = ObjectToRemove THEN RemoveAtSwap(Tracked, Index)
    ELSE UnregisterLoop(Tracked, ObjectToRemove, Index - 1)

\* The tracked array UnregisterObject leaves.
Unregistered(Tracked, ObjectToRemove) ==
    IF ObjectToRemove = NULL THEN Tracked
    ELSE UnregisterLoop(Tracked, ObjectToRemove, Len(Tracked))

\* Faulty variant of UnregisterObject: also drops the object's record from the cache.
UnregisterObjectDropsRecord(ObjectToRemove) ==
    /\ TrackedObjects' = Unregistered(TrackedObjects, ObjectToRemove)
    /\ CachedMemoryInfo' = SelectSeq(CachedMemoryInfo,
                                     LAMBDA r : r.TrackedObject # ObjectToRemove)
    /\ UNCHANGED <<TimeAccumulator, SampleInterval, bTickEnabled,
                   bHasBegunPlay, alive, fields, lastPass, sinceStart>>
    /\ UNCHANGED <<walkVars, logVars>>

\* UMemoryUsageTracker::UnregisterObject.
UnregisterObject(ObjectToRemove) ==
    /\ TrackedObjects' = Unregistered(TrackedObjects, ObjectToRemove)
    /\ UNCHANGED <<CachedMemoryInfo, TimeAccumulator, SampleInterval, bTickEnabled,
                   bHasBegunPlay, alive, fields, lastPass, sinceStart>>
    /\ UNCHANGED <<walkVars, logVars>>

\* UMemoryUsageTracker::GetTrackedMemoryInfo: the value returned.
GetTrackedMemoryInfoResult == CachedMemoryInfo

\* UMemoryUsageTracker::GetTrackedMemoryInfo: a const method, no state changes.
GetTrackedMemoryInfo ==
    /\ UNCHANGED <<TrackedObjects, CachedMemoryInfo, TimeAccumulator, SampleInterval,
                   bTickEnabled, bHasBegunPlay, alive, fields, lastPass, sinceStart>>
    /\ UNCHANGED <<walkVars, logVars>>

\* UMemoryUsageTracker::DumpMemoryUsageToLog: reads the cache, writes the log.
DumpMemoryUsageToLog ==
    /\ UNCHANGED <<TrackedObjects, CachedMemoryInfo, TimeAccumulator, SampleInterval,
                   bTickEnabled, bHasBegunPlay, alive, fields, lastPass, sinceStart>>
    /\ UNCHANGED <<walkVars, logVars>>

\* The host destroys a live object: every weak handle to it stops resolving.
DestroyObject(Obj) ==
    /\ alive[Obj]
    /\ alive' = [alive EXCEPT ![Obj] = FALSE]
    /\ UNCHANGED <<TrackedObjects, CachedMemoryInfo, TimeAccumulator, SampleInterval,
                   bTickEnabled, bHasBegunPlay, fields, lastPass, sinceStart>>
    /\ UNCHANGED <<walkVars, logVars>>

\* The event logger after construction, no call made yet.
NoLog ==
    /\ EventLog = <<>>
    /\ Mutex = NULL
    /\ pc = [t \in Threads |-> "idle"]
    /\ local = [t \in Threads |-> NoLocals]
    /\ out = NoOutput
    /\ GameTime = 0
    /\ liveAppends = 0

\* No CountReferencedObjects call is being followed step by step.
NoWalk ==
    /\ walkPc = "idle"
    /\ walkRoot = NULL
    /\ callStack = <<>>
    /\ VisitedSet = {}
    /\ walkResult = 0
    /\ entered = [o \in HeapObjects |-> 0]
    /\ steps = 0

\* The reference graph the sampler runs on: every object has a scalar, a
\* reference to the next object, a sequence holding the last object (shared
\* by all, and a self reference in the last object) and a null, a sequence
\* of scalars, a name and a string.
SharedHeap ==
    [o \in Objects |->
        <<PodProp(4),
          ObjectProp(IF o < MaxObjects THEN o + 1 ELSE NULL),
          ObjectArrayProp(<<MaxObjects, NULL>>),
          PodArrayProp(2, 4),
          NameProp,
          StrProp(16)>>]

\* The state after construction. Whether the component ticks before the
\* first StartTracking is the engine's choice (bStartWithTickEnabled).
Init ==
    /\ TrackedObjects = <<>>
    /\ CachedMemoryInfo = <<>>
    /\ TimeAccumulator = 0
    /\ SampleInterval = DefaultSampleInterval
    /\ bTickEnabled \in BOOLEAN
    /\ bHasBegunPlay = FALSE
    /\ alive = [o \in Objects |-> TRUE]
    /\ fields = SharedHeap
    /\ lastPass = <<>>
    /\ sinceStart = NotStarted
    /\ NoWalk
    /\ NoLog

Next ==
    \/ \E DeltaTime \in DeltaTimes : TickComponent(DeltaTime)
    \/ \E SamplingInterval \in StartArgs : StartTracking(SamplingInterval)
    \/ StopTracking
    \/ BeginPlay
    \/ EndPlay
    \/ \E ObjectToTrack \in Objects \cup {NULL} : RegisterObject(ObjectToTrack)
    \/ \E ObjectToRemove \in Objects \cup {NULL} : UnregisterObject(ObjectToRemove)
    \/ GetTrackedMemoryInfo
    \/ DumpMemoryUsageToLog
    \/ \E Obj \in Objects : DestroyObject(Obj)

Spec == Init /\ [][Next]_vars

\* ------------------------------------------------------ reference walker
\* One call of CountReferencedObjects followed statement by statement on a
\* reference graph that the game has built beforehand.

\* The objects before any reference is set: a scalar, a reference field, a
\* sequence of references and a sequence of scalars.
EmptyHeap ==
    [o \in HeapObjects |->
        <<PodProp(4), ObjectProp(NULL), ObjectArrayProp(<<>>), PodArrayProp(1, 4)>>]

\* The places of one property that hold a reference (a null sequence element
\* included): 0 for a set reference field, the indices of a reference sequence.
SlotsOf(Property) ==
    IF Property.kind = "Object"
    THEN (IF Property.value # NULL THEN {0} ELSE {})
    ELSE IF Property.kind = "Array" /\ Property.inner = "Object"
    THEN 1..Len(Property.elems)
    ELSE {}

ReferenceSlots ==
    UNION {UNION {{<<o, p, i>> : i \in SlotsOf(fields[o][p])} : p \in DOMAIN fields[o]} :
           o \in HeapObjects}

\* The game sets an empty reference field.
SetReference(Object, p, RefObject) ==
    /\ walkPc = "idle"
    /\ fields[Object][p].kind = "Object"
    /\ fields[Object][p].value = NULL
    /\ Cardinality(ReferenceSlots) < MaxRefs
    /\ fields' = [fields EXCEPT ![Object][p].value = RefObject]
    /\ UNCHANGED <<samplerVars, walkVars, logVars>>

\* The game appends an element, possibly null, to a sequence of references.
AddReference(Object, p, RefObject) ==
    /\ walkPc = "idle"
    /\ fields[Object][p].kind = "Array"
    /\ fields[Object][p].inner = "Object"
    /\ Cardinality(ReferenceSlots) < MaxRefs
    /\ fields' = [fields EXCEPT ![Object][p].elems = Append(@, RefObject)]
    /\ UNCHANGED <<samplerVars, walkVars, logVars>>

\* The locals of a call that has passed Visited.Add: "int32 Count = 1", the
\* field iterator on the first property, the element index at the start.
Frame(Object) == [Object |-> Object, p |-> 1, Index |-> 1, Count |-> 1]

\* The reference the call of frame f is looking at, NULL where the property
\* or the element is not a reference.
CurrentReference(f) ==
    LET Property == fields[f.Object][f.p]
    IN  IF Property.kind = "Object" THEN Property.value
        ELSE IF /\ Property.kind = "Array"
                /\ Property.inner = "Object"
                /\ f.Index <= Len(Property.elems)
        THEN Property.elems[f.Index]
        ELSE NULL

\* The call of frame f moves on: ++Index inside a sequence, ++PropIt otherwise.
Advance(f) ==
    LET Property == fields[f.Object][f.p]
    IN  IF Property.kind = "Array" /\ f.Index <= Len(Property.elems)
        THEN [f EXCEPT !.Index = @ + 1]
        ELSE [f EXCEPT !.p = @ + 1, !.Index = 1]

\* The top-level call CountReferencedObjects(Object, VisitedSet) on a fresh,
\* empty VisitedSet.
StartWalk(Object) ==
    /\ walkPc = "idle"
    /\ walkRoot' = Object
    /\ IF Enters(Object, {})
       THEN /\ walkPc' = "walking"
            /\ VisitedSet' = MarkVisited({}, Object)
            /\ callStack' = <<Frame(Object)>>
            /\ entered' = [entered EXCEPT ![Object] = @ + 1]
            /\ UNCHANGED walkResult
       ELSE /\ walkPc' = "done"
            /\ walkResult' = 0
            /\ UNCHANGED <<VisitedSet, callStack, entered>>
    /\ UNCHANGED <<samplerVars, fields, steps, logVars>>

\* One statement of the innermost call: "return Count" after the last
\* property, a recursive call on an unvisited reference, or moving on.
WalkStep ==
    /\ walkPc = "walking"
    /\ LET Depth == Len(callStack)
           top == callStack[Depth]
       IN  IF top.p > Len(fields[top.Object])
           THEN IF Depth = 1
                THEN /\ walkPc' = "done"
                     /\ walkResult' = top.Count
                     /\ callStack' = <<>>
                     /\ UNCHANGED <<VisitedSet, entered>>
                ELSE /\ callStack' =
                            Append(SubSeq(callStack, 1, Depth - 2),
                                   Advance([callStack[Depth - 1] EXCEPT
                                                !.Count = @ + top.Count]))
                     /\ UNCHANGED <<walkPc, walkResult, VisitedSet, entered>>
           ELSE IF /\ ShouldFollow(CurrentReference(top), VisitedSet)
                   /\ Enters(CurrentReference(top), VisitedSet)
                THEN /\ VisitedSet' = MarkVisited(VisitedSet, CurrentReference(top))
                     /\ callStack' = Append(callStack, Frame(CurrentReference(top)))
                     /\ entered' = [entered EXCEPT ![CurrentReference(top)] = @ + 1]
                     /\ UNCHANGED <<walkPc, walkResult>>
                ELSE /\ callStack' = [callStack EXCEPT ![Depth] = Advance(top)]
                     /\ UNCHANGED <<walkPc, walkResult, VisitedSet, entered>>
    /\ steps' = steps + 1
    /\ UNCHANGED <<samplerVars, fields, walkRoot, logVars>>

InitWalk ==
    /\ TrackedObjects = <<>>
    /\ CachedMemoryInfo = <<>>
    /\ TimeAccumulator = 0
    /\ SampleInterval = DefaultSampleInterval
    /\ bTickEnabled = FALSE
    /\ bHasBegunPlay = FALSE
    /\ alive = [o \in HeapObjects |-> TRUE]
    /\ fields = EmptyHeap
    /\ lastPass = <<>>
    /\ sinceStart = NotStarted
    /\ NoWalk
    /\ NoLog

NextWalk ==
    \/ \E Object \in HeapObjects : \E p \in DOMAIN fields[Object] :
          \E RefObject \in HeapObjects : SetReference(Object, p, RefObject)
    \/ \E Object \in HeapObjects : \E p \in DOMAIN fields[Object] :
          \E RefObject \in HeapObjects \cup {NULL} : AddReference(Object, p, RefObject)
    \/ \E Object \in HeapObjects \cup {NULL} : StartWalk(Object)
    \/ WalkStep

SpecWalk == InitWalk /\ [][NextWalk]_vars

\* The objects a property refers to, and the objects the fields of Object
\* refer to, directly.
ReferencesOf(Property) ==
    IF Property.kind = "Object" THEN {Property.value}
    ELSE IF Property.kind = "Array" /\ Property.inner = "Object"
    THEN {Property.elems[i] : i \in DOMAIN Property.elems}
    ELSE {}

References(Object) ==
    (UNION {ReferencesOf(fields[Object][p]) : p \in DOMAIN fields[Object]}) \ {NULL}

\* The objects reachable from the objects of S along references, S included.
RECURSIVE ReachableFrom(_)
ReachableFrom(S) ==
    LET T == S \cup UNION {References(o) : o \in S}
    IN  IF T = S THEN S ELSE ReachableFrom(T)

Reachable(Object) == IF Object = NULL THEN {} ELSE ReachableFrom({Object})

\* The statements a call executes inside the objects of S: one per property,
\* one per sequence element, and the return.
Work(S) ==
    UNION {{<<o, 0, 0>>}
           \cup {<<o, p, 0>> : p \in DOMAIN fields[o]}
           \cup UNION {{<<o, p, i>> : i \in (IF fields[o][p].kind = "Array"
                                             THEN 1..Len(fields[o][p].elems) ELSE {})} :
                       p \in DOMAIN fields[o]} :
           o \in S}

\* -------------------------------------------------- sampling a built graph
\* The sampling pass of TickComponent run on reference graphs that the game
\* has built beforehand, to see what the records say about each graph.

\* The objects before any reference is set: a scalar, a reference field, a
\* sequence of references, a sequence of scalars and a string that both grow
\* with the object's number, and a name.
PlainHeap ==
    [o \in HeapObjects |->
        <<PodProp(4), ObjectProp(NULL), ObjectArrayProp(<<>>), PodArrayProp(o, 4),
          StrProp(16 * o), NameProp>>]

\* The tracked arrays the pass is run on: the live objects of a subset, in
\* any order, without duplicates.
TrackedArrays ==
    {Tracked \in UNION {[1..n -> HeapObjects] : n \in 1..MaxHeapObjects} :
        \A i \in DOMAIN Tracked : \A j \in DOMAIN Tracked : Tracked[i] = Tracked[j] => i = j}

\* The objects of Tracked have been registered and a sampling pass runs.
RunSamplingPass(Tracked) ==
    /\ CachedMemoryInfo = <<>>
    /\ TrackedObjects' = SamplingPass(Tracked, CachedMemoryInfo).TrackedObjects
    /\ CachedMemoryInfo' = SamplingPass(Tracked, CachedMemoryInfo).CachedMemoryInfo
    /\ lastPass' = SamplingPass(Tracked, CachedMemoryInfo).CachedMemoryInfo
    /\ UNCHANGED <<TimeAccumulator, SampleInterval, bTickEnabled, bHasBegunPlay, alive, fields,
                   sinceStart>>
    /\ UNCHANGED <<walkVars, logVars>>

InitSize ==
    /\ TrackedObjects = <<>>
    /\ CachedMemoryInfo = <<>>
    /\ TimeAccumulator = 0
    /\ SampleInterval = DefaultSampleInterval
    /\ bTickEnabled = TRUE
    /\ bHasBegunPlay = TRUE
    /\ alive = [o \in HeapObjects |-> TRUE]
    /\ fields = PlainHeap
    /\ lastPass = <<>>
    /\ sinceStart = NotStarted
    /\ NoWalk
    /\ NoLog

NextSize ==
    \/ \E Object \in HeapObjects : \E p \in DOMAIN fields[Object] :
          \E RefObject \in HeapObjects :
             CachedMemoryInfo = <<>> /\ SetReference(Object, p, RefObject)
    \/ \E Object \in HeapObjects : \E p \in DOMAIN fields[Object] :
          \E RefObject \in HeapObjects \cup {NULL} :
             CachedMemoryInfo = <<>> /\ AddReference(Object, p, RefObject)
    \/ \E Tracked \in TrackedArrays : RunSamplingPass(Tracked)

SpecSize == InitSize /\ [][NextSize]_vars

\* ----------------------------------------------------------- event logger
\* FString::ToLower.
ToLowerChar(c) == IF c = "A" THEN "a" ELSE IF c = "B" THEN "b" ELSE c
ToLower(Text) == [i \in DOMAIN Text |-> ToLowerChar(Text[i])]

\* FString::Contains(SubStr) with the default ESearchCase::IgnoreCase. What
\* it answers for an empty SubStr is the engine's: TCString::Stristr finds
\* no empty string, TCString::Strnistr finds it at the start; bEmptyFound is
\* the answer of the engine the component is built against.
Contains(Text, SubStr, bEmptyFound) ==
    IF SubStr = EmptyString THEN bEmptyFound
    ELSE \E i \in 1..(Len(Text) - Len(SubStr) + 1) :
            ToLower(SubSeq(Text, i, i + Len(SubStr) - 1)) = ToLower(SubStr)

\* No name counts as empty: the test of LogEvent never rejects.
IsEmptyNever(Text) == FALSE

\* FString::IsEmpty.
IsEmpty(Text) == Len(Text) = 0

\* FDateTime::UtcNow().ToString(): one token, free of commas and quotes.
UtcNow == <<"UTC">>

\* FGameplayEventEntry(InName, InContext, InGameTime).
FGameplayEventEntry(InName, InContext, InGameTime) ==
    [EventName |-> InName, Context |-> InContext, GameTime |-> InGameTime,
     RealTimestamp |-> UtcNow]

\* A lock that excludes nobody.
MutexAlwaysAvailable == TRUE

\* FScopeLock's constructor can return: nobody is inside the critical section.
MutexAvailable == Mutex = NULL

\* The calls in flight that will still add an entry.
PendingAdds == {u \in Threads : local[u].op = "LogEvent" /\ pc[u] # "idle"}

\* UGameplayEventLogger::LogEvent up to the scope of the lock: the empty name
\* is rejected, otherwise the time is read and the entry built. A component
\* without a world reads 0, the value the world's clock starts from.
LogEvent(t, EventName, Context) ==
    /\ pc[t] = "idle"
    /\ IF IsEmpty(EventName)
       THEN /\ out' = [NoOutput EXCEPT !.t = t, !.op = "LogEvent", !.value = FALSE]
            /\ UNCHANGED <<pc, local>>
       ELSE /\ Len(EventLog) + Cardinality(PendingAdds) < MaxLog
            /\ local' = [local EXCEPT ![t] =
                            [NoLocals EXCEPT !.op = "LogEvent",
                                !.Entry = FGameplayEventEntry(EventName, Context, GameTime)]]
            /\ pc' = [pc EXCEPT ![t] = "lock"]
            /\ out' = NoOutput
    /\ UNCHANGED <<EventLog, Mutex, GameTime, liveAppends>>
    /\ UNCHANGED <<samplerVars, fields, walkVars>>

\* The entry of the operations that start with "FScopeLock Lock(&Mutex)".
Call(t, op, SearchTerm) ==
    /\ pc[t] = "idle"
    /\ local' = [local EXCEPT ![t] = [NoLocals EXCEPT !.op = op, !.SearchTerm = SearchTerm]]
    /\ pc' = [pc EXCEPT ![t] = "lock"]
    /\ out' = NoOutput
    /\ UNCHANGED <<EventLog, Mutex, GameTime, liveAppends>>
    /\ UNCHANGED <<samplerVars, fields, walkVars>>

ClearLog(t) == Call(t, "ClearLog", EmptyString)
DumpLogToConsole(t) == Call(t, "DumpLogToConsole", EmptyString)
GetEventCount(t) == Call(t, "GetEventCount", EmptyString)
SearchEventsByName(t, SearchTerm) == Call(t, "SearchEventsByName", SearchTerm)
SearchEventsByContext(t, SearchTerm) == Call(t, "SearchEventsByContext", SearchTerm)
ExportLogToCSV(t) == Call(t, "ExportLogToCSV", EmptyString)

\* FScopeLock Lock(&Mutex): the thread enters the critical section.
ScopeLock(t) ==
    /\ pc[t] = "lock"
    /\ MutexAvailable
    /\ Mutex' = t
    /\ pc' = [pc EXCEPT ![t] = local[t].op]
    /\ out' = NoOutput
    /\ UNCHANGED <<EventLog, local, GameTime, liveAppends>>
    /\ UNCHANGED <<samplerVars, fields, walkVars>>

\* A scope that ends without giving the mutex back.
UnlockNever(t) == Mutex

\* The end of the scope of the FScopeLock the thread holds.
Unlock(t) == IF Mutex = t THEN NULL ELSE Mutex

\* Thread t returns value from the operation it is in, after the calls of
\* SaveStringToFile listed in saves.
ReturnSaved(t, value, saves) ==
    /\ out' = [t |-> t, op |-> local[t].op, value |-> value, saves |-> saves]
    /\ pc' = [pc EXCEPT ![t] = "idle"]
    /\ local' = [local EXCEPT ![t] = NoLocals]
    /\ Mutex' = Unlock(t)

Return(t, value) == ReturnSaved(t, value, <<>>)

\* EventLog.Add, first half: the index of the new element is ArrayNum.
AddIndex(t) ==
    /\ pc[t] = "LogEvent"
    /\ local' = [local EXCEPT ![t].Index = Len(EventLog)]
    /\ pc' = [pc EXCEPT ![t] = "Add"]
    /\ out' = NoOutput
    /\ UNCHANGED <<EventLog, Mutex, GameTime, liveAppends>>
    /\ UNCHANGED <<samplerVars, fields, walkVars>>

\* The new element put in front of the others.
StoreAtFront(Log, Index, Entry) == <<Entry>> \o Log

\* The element stored at Index, the first free index when it was read: the
\* array then has Index + 1 elements.
StoreAt(Log, Index, Entry) ==
    Append(SubSeq(Log, 1, IF Index < Len(Log) THEN Index ELSE Len(Log)), Entry)

\* EventLog.Add, second half: the entry is stored at that index, which makes
\* ArrayNum the index plus one; then the scope of the lock ends.
AddStore(t) ==
    /\ pc[t] = "Add"
    /\ EventLog' = StoreAt(EventLog, local[t].Index, local[t].Entry)
    /\ liveAppends' = liveAppends + 1
    /\ Return(t, TRUE)
    /\ UNCHANGED GameTime
    /\ UNCHANGED <<samplerVars, fields, walkVars>>

\* The body of ClearLog: EventLog.Empty().
Empty(t) ==
    /\ pc[t] = "ClearLog"
    /\ EventLog' = <<>>
    /\ liveAppends' = 0
    /\ Return(t, TRUE)
    /\ UNCHANGED GameTime
    /\ UNCHANGED <<samplerVars, fields, walkVars>>

\* The body of DumpLogToConsole: one line per entry goes to the output log.
DumpLoop(t) ==
    /\ pc[t] = "DumpLogToConsole"
    /\ Return(t, EventLog)
    /\ UNCHANGED <<EventLog, GameTime, liveAppends>>
    /\ UNCHANGED <<samplerVars, fields, walkVars>>

\* The body of GetEventCount.
Num(t) ==
    /\ pc[t] = "GetEventCount"
    /\ Return(t, Len(EventLog))
    /\ UNCHANGED <<EventLog, GameTime, liveAppends>>
    /\ UNCHANGED <<samplerVars, fields, walkVars>>

\* The loop of both searches: the entries of Log, from the i-th on, whose
\* lower-cased field contains the lower-cased term.
RECURSIVE SearchLoop(_, _, _, _, _)
SearchLoop(Log, i, Field, SearchTermLower, bEmptyFound) ==
    IF i > Len(Log) THEN <<>>
    ELSE (IF Contains(ToLower(Log[i][Field]), SearchTermLower, bEmptyFound)
          THEN <<Log[i]>> ELSE <<>>)
         \o SearchLoop(Log, i + 1, Field, SearchTermLower, bEmptyFound)

SearchResults(Log, Field, SearchTerm, bEmptyFound) ==
    SearchLoop(Log, 1, Field, ToLower(SearchTerm), bEmptyFound)

\* The bodies of SearchEventsByName and SearchEventsByContext.
SearchByName(t) ==
    /\ pc[t] = "SearchEventsByName"
    /\ \E bEmptyFound \in BOOLEAN :
          Return(t, SearchResults(EventLog, "EventName", local[t].SearchTerm, bEmptyFound))
    /\ UNCHANGED <<EventLog, GameTime, liveAppends>>
    /\ UNCHANGED <<samplerVars, fields, walkVars>>

SearchByContext(t) ==
    /\ pc[t] = "SearchEventsByContext"
    /\ \E bEmptyFound \in BOOLEAN :
          Return(t, SearchResults(EventLog, "Context", local[t].SearchTerm, bEmptyFound))
    /\ UNCHANGED <<EventLog, GameTime, liveAppends>>
    /\ UNCHANGED <<samplerVars, fields, walkVars>>

\* Output.ReplaceInline("\"", "\"\""): every double quote is doubled.
RECURSIVE ReplaceInline(_)
ReplaceInline(Text) ==
    IF Text = <<>> THEN <<>>
    ELSE (IF Head(Text) = Quote THEN <<Quote, Quote>> ELSE <<Head(Text)>>)
         \o ReplaceInline(Tail(Text))

\* Output.Contains(c) for a one-character c.
HasChar(Text, c) == \E i \in DOMAIN Text : Text[i] = c

\* The same with no test at all: every field is quoted.
SanitizeAlways(Input) == <<Quote>> \o ReplaceInline(Input) \o <<Quote>>

\* UGameplayEventLogger::SanitizeForCSV.
SanitizeForCSV(Input) ==
    IF HasChar(Input, Quote) \/ HasChar(Input, Comma)
    THEN <<Quote>> \o ReplaceInline(Input) \o <<Quote>>
    ELSE Input

\* Printf("%.3f") of a time in units of 0.001 s.
Digits == <<"0", "1", "2", "3", "4", "5", "6", "7", "8", "9">>
Digit(n) == Digits[(n % 10) + 1]
FormatTime(Time) ==
    <<Digit(Time \div 1000), ".", Digit(Time \div 100), Digit(Time \div 10), Digit(Time)>>

\* "GameTime,EventName,Context,UTC_Timestamp\n": each column title is one
\* token, free of commas, quotes and line breaks.
CSVHeader ==
    <<"GameTime", Comma, "EventName", Comma, "Context", Comma, "UTC_Timestamp", LineBreak>>

\* Printf("%.3f,%s,%s,%s\n") of one entry.
CSVLine(Entry) ==
    FormatTime(Entry.GameTime) \o <<Comma>> \o SanitizeForCSV(Entry.EventName) \o <<Comma>>
    \o SanitizeForCSV(Entry.Context) \o <<Comma>> \o Entry.RealTimestamp \o <<LineBreak>>

\* The loop of ExportLogToCSV, from the i-th entry on.
RECURSIVE CSVLines(_, _)
CSVLines(Log, i) ==
    IF i > Len(Log) THEN <<>> ELSE CSVLine(Log[i]) \o CSVLines(Log, i + 1)

CSVContent(Log) == CSVHeader \o CSVLines(Log, 1)

\* FFileHelper::SaveStringToFile(Text, FilePath) answering bSaved.
SaveStringToFile(Text, bSaved) == [Text |-> Text, bSaved |-> bSaved]

\* The emptiness test left out: an empty log is exported as well.
NothingToExportNever(Log) == FALSE

\* EventLog.Num() == 0, the test that ends ExportLogToCSV early.
NothingToExport(Log) == Len(Log) = 0

\* The lock given up once the emptiness test is done.
ScopeEndsAfterTest(t) == Unlock(t)

\* The FScopeLock of ExportLogToCSV is a local of the whole function: after
\* the emptiness test the mutex is held as before.
ScopeAfterTest(t) == Mutex

\* The body of ExportLogToCSV up to the emptiness test: an empty log ends the
\* call; otherwise the call goes on to build the text. Seen is the log as
\* the test saw it.
Export(t) ==
    /\ pc[t] = "ExportLogToCSV"
    /\ IF NothingToExport(EventLog)
       THEN Return(t, FALSE)
       ELSE /\ pc' = [pc EXCEPT ![t] = "CSVContent"]
            /\ local' = [local EXCEPT ![t].Seen = EventLog]
            /\ Mutex' = ScopeAfterTest(t)
            /\ out' = NoOutput
    /\ UNCHANGED <<EventLog, GameTime, liveAppends>>
    /\ UNCHANGED <<samplerVars, fields, walkVars>>

\* The rest of ExportLogToCSV: the text is built from the entries and given
\* to SaveStringToFile, whose answer is returned. Whether the save succeeds
\* is the file system's.
SaveCSV(t) ==
    /\ pc[t] = "CSVContent"
    /\ \E bSaved \in BOOLEAN :
          ReturnSaved(t, bSaved, <<SaveStringToFile(CSVContent(EventLog), bSaved)>>)
    /\ UNCHANGED <<EventLog, GameTime, liveAppends>>
    /\ UNCHANGED <<samplerVars, fields, walkVars>>

\* The threads inside an operation that writes, respectively reads, EventLog.
Mutating(t) == pc[t] \in {"LogEvent", "Add", "ClearLog"}
Reading(t) ==
    pc[t] \in {"GetEventLog", "DumpLogToConsole", "GetEventCount", "SearchEventsByName",
               "SearchEventsByContext", "ExportLogToCSV", "CSVContent"}

\* UGameplayEventLogger::GetEventLog: "return EventLog", a reference to the
\* array, which the caller then reads.
GetEventLog(t) ==
    /\ pc[t] = "idle"
    /\ local' = [local EXCEPT ![t] = [NoLocals EXCEPT !.op = "GetEventLog"]]
    /\ pc' = [pc EXCEPT ![t] = "GetEventLog"]
    /\ out' = NoOutput
    /\ UNCHANGED <<EventLog, Mutex, GameTime, liveAppends>>
    /\ UNCHANGED <<samplerVars, fields, walkVars>>

\* What a read that races with a write may see.
Torn == <<[bTorn |-> TRUE]>>

\* The caller has read the array through the reference: the array as it is,
\* or anything if another thread is writing it at the same time.
ReadReference(t) ==
    /\ pc[t] = "GetEventLog"
    /\ \E bTorn \in {FALSE} \cup {\E u \in Threads \ {t} : Mutating(u)} :
          Return(t, IF bTorn THEN Torn ELSE EventLog)
    /\ UNCHANGED <<EventLog, GameTime, liveAppends>>
    /\ UNCHANGED <<samplerVars, fields, walkVars>>

\* The world's clock, which never runs backwards, advances.
AdvanceTime ==
    /\ GameTime < MaxGameTime
    /\ GameTime' = GameTime + 1
    /\ out' = NoOutput
    /\ UNCHANGED <<EventLog, Mutex, pc, local, liveAppends>>
    /\ UNCHANGED <<samplerVars, fields, walkVars>>

InitLog ==
    /\ TrackedObjects = <<>>
    /\ CachedMemoryInfo = <<>>
    /\ TimeAccumulator = 0
    /\ SampleInterval = DefaultSampleInterval
    /\ bTickEnabled = FALSE
    /\ bHasBegunPlay = FALSE
    /\ alive = [o \in Objects |-> TRUE]
    /\ fields = SharedHeap
    /\ lastPass = <<>>
    /\ sinceStart = NotStarted
    /\ NoWalk
    /\ NoLog

NextLog ==
    \/ \E t \in Threads : \E EventName \in EventNames : \E Context \in Contexts :
          LogEvent(t, EventName, Context)
    \/ \E t \in Threads : ClearLog(t)
    \/ \E t \in Threads : DumpLogToConsole(t)
    \/ \E t \in Threads : ExportLogToCSV(t)
    \/ \E t \in Threads : GetEventLog(t)
    \/ \E t \in Threads : \E SearchTerm \in SearchTerms : SearchEventsByName(t, SearchTerm)
    \/ \E t \in Threads : \E SearchTerm \in SearchTerms : SearchEventsByContext(t, SearchTerm)
    \/ \E t \in Threads : GetEventCount(t)
    \/ \E t \in Threads : ScopeLock(t)
    \/ \E t \in Threads : AddIndex(t)
    \/ \E t \in Threads : AddStore(t)
    \/ \E t \in Threads : Empty(t)
    \/ \E t \in Threads : DumpLoop(t)
    \/ \E t \in Threads : Export(t)
    \/ \E t \in Threads : SaveCSV(t)
    \/ \E t \in Threads : ReadReference(t)
    \/ \E t \in Threads : SearchByName(t)
    \/ \E t \in Threads : SearchByContext(t)
    \/ \E t \in Threads : Num(t)
    \/ AdvanceTime

SpecLog == InitLog /\ [][NextLog]_vars

\* The steps of a call that has started, other than taking the mutex: none of
\* them waits for anything.
Body(t) ==
    \/ AddIndex(t)
    \/ AddStore(t)
    \/ Empty(t)
    \/ DumpLoop(t)
    \/ Export(t)
    \/ SaveCSV(t)
    \/ ReadReference(t)
    \/ SearchByName(t)
    \/ SearchByContext(t)
    \/ Num(t)

\* Fair scheduling of the threads: a thread that can run the next statement
\* of its call eventually runs it, and a thread waiting in FScopeLock's
\* constructor that finds the mutex free again and again eventually gets it.
\* Starting a call is the caller's choice and is under no obligation.
FairSpecLog ==
    /\ SpecLog
    /\ \A t \in Threads : WF_vars(Body(t))
    /\ \A t \in Threads : SF_vars(ScopeLock(t))

\* -------------------------------------------------- export and read back
\* The texts of up to MaxChars characters over a letter, the comma, the
\* double quote and the line break.
CsvChars == {"a", Comma, Quote, LineBreak}
CsvStrings == UNION {[1..n -> CsvChars] : n \in 0..MaxChars}
\* The contexts the exported entries carry.
CsvContexts == {EmptyString, <<Comma>>, Str(Quote, "a"), <<LineBreak>>}
\* The entries LogEvent accepts with these names and contexts, and the logs
\* of up to MaxRows of them.
CsvEntries ==
    {FGameplayEventEntry(EventName, Context, 0) :
        EventName \in CsvStrings \ {EmptyString}, Context \in CsvContexts}
CsvLogs == UNION {[1..n -> CsvEntries] : n \in 0..MaxRows}

\* A reader of tabular text with the usual quoting rules: a comma ends a
\* field and a line break ends a row unless they stand inside a quoted field;
\* a field that starts with a double quote runs to the next single double
\* quote, and a doubled double quote inside it stands for one.
RECURSIVE ParseFrom(_, _, _, _, _, _)
ParseFrom(Text, i, Field, Row, Rows, bInQuotes) ==
    IF i > Len(Text)
    THEN (IF Field = <<>> /\ Row = <<>> THEN Rows ELSE Append(Rows, Append(Row, Field)))
    ELSE IF bInQuotes
    THEN (IF Text[i] = Quote
          THEN (IF i < Len(Text) /\ Text[i + 1] = Quote
                THEN ParseFrom(Text, i + 2, Append(Field, Quote), Row, Rows, TRUE)
                ELSE ParseFrom(Text, i + 1, Field, Row, Rows, FALSE))
          ELSE ParseFrom(Text, i + 1, Append(Field, Text[i]), Row, Rows, TRUE))
    ELSE IF Text[i] = Quote /\ Field = <<>>
    THEN ParseFrom(Text, i + 1, Field, Row, Rows, TRUE)
    ELSE IF Text[i] = Comma
    THEN ParseFrom(Text, i + 1, <<>>, Append(Row, Field), Rows, FALSE)
    ELSE IF Text[i] = LineBreak
    THEN ParseFrom(Text, i + 1, <<>>, <<>>, Append(Rows, Append(Row, Field)), FALSE)
    ELSE ParseFrom(Text, i + 1, Append(Field, Text[i]), Row, Rows, FALSE)

ParseCSV(Text) == ParseFrom(Text, 1, <<>>, <<>>, <<>>, FALSE)

\* The file a successful export has just saved is read back.
ReadBack ==
    /\ out.op = "ExportLogToCSV"
    /\ out.value = TRUE
    /\ out' = [t |-> out.t, op |-> "ReadBack", value |-> ParseCSV(out.saves[1].Text),
               saves |-> <<>>]
    /\ UNCHANGED <<EventLog, Mutex, pc, local, GameTime, liveAppends>>
    /\ UNCHANGED <<samplerVars, fields, walkVars>>

InitCsv ==
    /\ TrackedObjects = <<>>
    /\ CachedMemoryInfo = <<>>
    /\ TimeAccumulator = 0
    /\ SampleInterval = DefaultSampleInterval
    /\ bTickEnabled = FALSE
    /\ bHasBegunPlay = FALSE
    /\ alive = [o \in Objects |-> TRUE]
    /\ fields = SharedHeap
    /\ lastPass = <<>>
    /\ sinceStart = NotStarted
    /\ NoWalk
    /\ EventLog \in CsvLogs
    /\ Mutex = NULL
    /\ pc = [t \in Threads |-> "idle"]
    /\ local = [t \in Threads |-> NoLocals]
    /\ out = NoOutput
    /\ GameTime = 0
    /\ liveAppends = Len(EventLog)

NextCsv ==
    \/ \E t \in Threads : pc = [u \in Threads |-> "idle"] /\ ExportLogToCSV(t)
    \/ \E t \in Threads : ScopeLock(t)
    \/ \E t \in Threads : Export(t)
    \/ \E t \in Threads : SaveCSV(t)
    \/ ReadBack

SpecCsv == InitCsv /\ [][NextCsv]_vars

\* ------------------------------------------------------------ properties
\* How many handles of an array name the object Obj.
HandleCount(Tracked, Obj) ==
    Cardinality({i \in 1..Len(Tracked) : Tracked[i] = Obj})

\* How many records of a cache are about the object Obj.
RecordCount(Cache, Obj) ==
    Cardinality({i \in 1..Len(Cache) : Cache[i].TrackedObject = Obj})

\* C1: no two handles of the tracked set resolve to the same live object,
\* and RegisterObject(o) on an already tracked live o changes nothing.
C1_NoDuplicateLiveHandles ==
    /\ \A i, j \in 1..Len(TrackedObjects) :
          (i # j /\ Get(TrackedObjects[i]) # NULL)
             => Get(TrackedObjects[i]) # Get(TrackedObjects[j])
    /\ \A o \in Objects :
          (alive[o] /\ HandleCount(TrackedObjects, o) > 0)
             => ~ENABLED (RegisterObject(o) /\ TrackedObjects' # TrackedObjects)

\* A live object is the only entry and is registered again: the size stays 1.
C1_Witness ==
    \E o \in Objects :
        /\ alive[o]
        /\ TrackedObjects = <<o>>
        /\ ENABLED (RegisterObject(o) /\ Len(TrackedObjects') = 1)

\* C2: a sampling pass leaves exactly the handles whose referent is live:
\* every handle to a destroyed object goes, every handle to a live object
\* stays (once), and each live handle is processed exactly once.
C2_PassKeepsExactlyLiveHandles ==
    \A dt \in DeltaTimes :
        (TickIsScheduled /\ SampleIsDue(dt)) =>
            \A o \in Objects :
                /\ HandleCount(TickResult(dt).TrackedObjects, o) =
                      (IF alive[o] THEN HandleCount(TrackedObjects, o) ELSE 0)
                /\ RecordCount(TickResult(dt).CachedMemoryInfo, o) =
                      (IF alive[o] THEN HandleCount(TrackedObjects, o) ELSE 0)

\* A pass runs on an array with a dead handle on each side of a live one and
\* leaves the live handle alone.
C2_Witness ==
    /\ TickIsScheduled
    /\ Len(TrackedObjects) = 3
    /\ Get(TrackedObjects[1]) = NULL
    /\ Get(TrackedObjects[2]) # NULL
    /\ Get(TrackedObjects[3]) = NULL
    /\ \E dt \in DeltaTimes :
          /\ SampleIsDue(dt)
          /\ TickResult(dt).TrackedObjects = <<TrackedObjects[2]>>

\* The objects with a live handle in the array.
LiveTracked(Tracked) ==
    {Get(Tracked[i]) : i \in 1..Len(Tracked)} \ {NULL}

\* The records of a cache, as a set.
Records(Cache) == {Cache[i] : i \in 1..Len(Cache)}

\* C3: right after a sampling pass the cache holds exactly one record for
\* each tracked live object, none for a destroyed object and none left over
\* from an earlier pass.
C3_CacheIsThePassResult ==
    \A dt \in DeltaTimes :
        (TickIsScheduled /\ SampleIsDue(dt)) =>
            /\ Len(TickResult(dt).CachedMemoryInfo) = Cardinality(LiveTracked(TrackedObjects))
            /\ Records(TickResult(dt).CachedMemoryInfo)
                  = {MemoryUsageInfo(o) : o \in LiveTracked(TrackedObjects)}
            /\ \A r \in Records(TickResult(dt).CachedMemoryInfo) : alive[r.TrackedObject]

\* A pass runs while the cache still holds the record of an object that has
\* since been destroyed, and another tracked object is live.
C3_Witness ==
    /\ TickIsScheduled
    /\ \E r \in Records(CachedMemoryInfo) : ~alive[r.TrackedObject]
    /\ \E dt \in DeltaTimes :
          /\ SampleIsDue(dt)
          /\ Len(TickResult(dt).CachedMemoryInfo) = 1

\* C4: every TickComponent(dt) called in the Sampling state adds
\* dt to the accumulator; when the sum reaches the interval the accumulator
\* is reset and one sampling pass runs, otherwise tracked set and cache are
\* unchanged -- whatever the size of the tracked set.
C4_EveryAdvanceAccumulates ==
    \A dt \in DeltaTimes :
        (TickIsScheduled /\ TickResult(dt).TimeAccumulator <= MaxAccum) =>
            IF TimeAccumulator + dt >= SampleInterval
            THEN /\ TickResult(dt).TimeAccumulator = 0
                 /\ TickResult(dt).sampled
            ELSE /\ TickResult(dt).TimeAccumulator = TimeAccumulator + dt
                 /\ TickResult(dt).TrackedObjects = TrackedObjects
                 /\ TickResult(dt).CachedMemoryInfo = CachedMemoryInfo

\* The operations other than TickComponent and StartTracking.
OtherOperations ==
    \/ StopTracking
    \/ BeginPlay
    \/ EndPlay
    \/ \E ObjectToTrack \in Objects \cup {NULL} : RegisterObject(ObjectToTrack)
    \/ \E ObjectToRemove \in Objects \cup {NULL} : UnregisterObject(ObjectToRemove)
    \/ GetTrackedMemoryInfo
    \/ DumpMemoryUsageToLog
    \/ \E Obj \in Objects : DestroyObject(Obj)

\* C5: StopTracking (and EndPlay) leave the tick disabled; while it is
\* disabled no TickComponent runs, and no operation other than StartTracking
\* enables it again or changes the cache, which GetTrackedMemoryInfo returns.
C5_StoppedMeansNoSampling ==
    /\ ~ENABLED (StopTracking /\ bTickEnabled')
    /\ ~ENABLED (EndPlay /\ bTickEnabled')
    /\ ~bTickEnabled =>
          /\ ~TickIsScheduled
          /\ ~ENABLED (OtherOperations
                       /\ (bTickEnabled' \/ CachedMemoryInfo' # CachedMemoryInfo))
          /\ GetTrackedMemoryInfoResult = CachedMemoryInfo

\* Tracking is stopped while the component is in play with a filled cache,
\* a tracked object and an accumulator that has reached the interval.
C5_Witness ==
    /\ ~bTickEnabled
    /\ bHasBegunPlay
    /\ CachedMemoryInfo # <<>>
    /\ TrackedObjects # <<>>
    /\ TimeAccumulator >= SampleInterval

\* C6: GetTrackedMemoryInfo returns the records of the last completed
\* sampling pass (none before the first pass), and only a sampling pass
\* changes the cache.
C6_CacheChangesOnlyInAPass ==
    /\ GetTrackedMemoryInfoResult = lastPass
    /\ ~ENABLED ((OtherOperations \/ \E x \in StartArgs : StartTracking(x))
                 /\ CachedMemoryInfo' # CachedMemoryInfo)
    /\ \A dt \in DeltaTimes :
          (TickIsScheduled /\ ~SampleIsDue(dt))
             => TickResult(dt).CachedMemoryInfo = CachedMemoryInfo

\* After a pass that recorded two objects both were unregistered: the cache
\* still holds the two records of that pass.
C6_Witness ==
    /\ Len(lastPass) = 2
    /\ TrackedObjects = <<>>
    /\ GetTrackedMemoryInfoResult = lastPass

\* C7: the interval StartTracking(x) leaves is max(x, 0.01) for every x, so
\* the interval is never below the floor, and right after a sampling pass a
\* tick with zero elapsed time does not sample again.
C7_IntervalClamped ==
    /\ SampleInterval >= MinSampleInterval
    /\ \A x \in StartArgs :
          ~ENABLED (StartTracking(x)
                    /\ ~(/\ SampleInterval' >= x
                         /\ SampleInterval' >= MinSampleInterval
                         /\ SampleInterval' \in {x, MinSampleInterval}))
    /\ \A dt \in DeltaTimes :
          (TickIsScheduled /\ SampleIsDue(dt)) => TickResult(dt).TimeAccumulator = 0
    /\ (TickIsScheduled /\ TimeAccumulator = 0) => ~TickResult(0).sampled

\* Sampling runs at the floor interval, a pass has just filled the cache, and
\* StartTracking with a negative argument gives the floor.
C7_Witness ==
    /\ TickIsScheduled
    /\ SampleInterval = MinSampleInterval
    /\ TimeAccumulator = 0
    /\ TrackedObjects # <<>>
    /\ lastPass # <<>>
    /\ ENABLED (StartTracking(-1) /\ SampleInterval' = MinSampleInterval)

\* C8: UnregisterObject(o) removes exactly the one handle whose live referent
\* is o and keeps every other handle; when o is null or no handle resolves
\* to o the tracked set is unchanged; cache and accumulator never change.
C8_UnregisterRemovesOneHandle ==
    \A o \in Objects \cup {NULL} :
        ~ENABLED (/\ UnregisterObject(o)
                  /\ ~(/\ IF o # NULL /\ alive[o] /\ HandleCount(TrackedObjects, o) > 0
                          THEN /\ Len(TrackedObjects') = Len(TrackedObjects) - 1
                               /\ HandleCount(TrackedObjects', o)
                                     = HandleCount(TrackedObjects, o) - 1
                               /\ \A h \in Objects \ {o} :
                                     HandleCount(TrackedObjects', h)
                                        = HandleCount(TrackedObjects, h)
                          ELSE TrackedObjects' = TrackedObjects
                       /\ CachedMemoryInfo' = CachedMemoryInfo
                       /\ TimeAccumulator' = TimeAccumulator))

\* The first of three handles is unregistered: the last one takes its place.
C8_Witness ==
    /\ Len(TrackedObjects) = 3
    /\ alive[TrackedObjects[1]]
    /\ ENABLED (/\ UnregisterObject(TrackedObjects[1])
                /\ TrackedObjects' = <<TrackedObjects[3], TrackedObjects[2]>>)

\* C9: called with an empty visited set on a non-null root, CountReferencedObjects
\* returns the number of distinct objects reachable from the root, the root
\* included, whatever cycles, self references and shared objects the graph
\* has: both the value the function computes on the graph and the value the
\* statement-by-statement call returns.
C9_CountIsReachableObjects ==
    /\ walkPc = "idle" =>
          \A Object \in HeapObjects :
             CountReferencedObjects(Object, {}).Count = Cardinality(Reachable(Object))
    /\ walkPc = "done" /\ walkRoot # NULL =>
          /\ walkResult = Cardinality(Reachable(walkRoot))
          /\ walkResult = CountReferencedObjects(walkRoot, {}).Count
          /\ VisitedSet = Reachable(walkRoot)

\* A finished call on the diamond A->B, A->C, B->C that returned 3.
C9_Witness ==
    /\ walkPc = "done"
    /\ walkRoot = 1
    /\ References(1) = {2, 3}
    /\ 3 \in References(2)
    /\ walkResult = 3

\* C10: the call terminates on every finite graph: no object's field loop is
\* entered twice in one top-level call, every object is in the visited set
\* while its fields are iterated, a running call can always take its next
\* statement, and it has taken at most the statements of the reachable objects.
C10_EnteredOnceAndBounded ==
    /\ \A o \in HeapObjects : entered[o] <= 1
    /\ \A i \in DOMAIN callStack : callStack[i].Object \in VisitedSet
    /\ walkPc = "walking" => callStack # <<>> /\ ENABLED WalkStep
    /\ steps <= Cardinality(Work(Reachable(walkRoot)))
    /\ walkPc = "done" /\ walkRoot # NULL =>
          /\ steps = Cardinality(Work(Reachable(walkRoot)))
          /\ \A o \in Reachable(walkRoot) : entered[o] = 1

\* A finished call on a root whose reference sequence holds the root itself
\* and which is on a cycle with a second object.
C10_Witness ==
    /\ walkPc = "done"
    /\ walkRoot # NULL
    /\ \E p \in DOMAIN fields[walkRoot] :
          /\ fields[walkRoot][p].kind = "Array"
          /\ \E i \in DOMAIN fields[walkRoot][p].elems :
                fields[walkRoot][p].elems[i] = walkRoot
    /\ \E o \in References(walkRoot) \ {walkRoot} : walkRoot \in References(o)
    /\ entered[walkRoot] = 1
    /\ walkResult = 2

\* C11: LogEvent with an empty name is rejected: whatever the context and
\* whatever the log holds, the call returns at once, the log and its count
\* are as before and no entry is left waiting to be added.
C11_EmptyNameRejected ==
    \A t \in Threads : \A Context \in Contexts :
        ~ENABLED (/\ LogEvent(t, EmptyString, Context)
                  /\ ~(/\ EventLog' = EventLog
                       /\ Len(EventLog') = Len(EventLog)
                       /\ pc' = pc
                       /\ local' = local
                       /\ out'.op = "LogEvent" /\ out'.value = FALSE))

\* A LogEvent with an empty name has just been rejected on a log that holds
\* an entry.
C11_Witness ==
    /\ out.op = "LogEvent"
    /\ out.value = FALSE
    /\ Len(EventLog) > 0
    /\ \A t \in Threads : pc[t] = "idle"

\* Letter case folded the other way round, to upper case.
FoldCase(c) == IF c = "a" THEN "A" ELSE IF c = "b" THEN "B" ELSE c

\* Term occurs in Text as a substring, letter case ignored; the empty term
\* occurs in every text.
OccursIn(Term, Text) ==
    \E i \in 0..(Len(Text) - Len(Term)) :
        \A j \in 1..Len(Term) : FoldCase(Text[i + j]) = FoldCase(Term[j])

\* The entries of Log whose field contains Term, in the order of Log.
Matching(Log, Field, Term) ==
    LET Matches(Entry) == OccursIn(Term, Entry[Field])
    IN  SelectSeq(Log, Matches)

\* C12: SearchEventsByName(term) and SearchEventsByContext(term) return
\* exactly the entries whose name, respectively context, contains term as a
\* substring ignoring letter case, in log order and without changing the log;
\* with an empty term that is the whole log.
C12_SearchReturnsMatches ==
    \A t \in Threads :
        /\ pc[t] = "SearchEventsByName" =>
              ~ENABLED (/\ SearchByName(t)
                        /\ ~(/\ out'.value = Matching(EventLog, "EventName", local[t].SearchTerm)
                             /\ EventLog' = EventLog))
        /\ pc[t] = "SearchEventsByContext" =>
              ~ENABLED (/\ SearchByContext(t)
                        /\ ~(/\ out'.value = Matching(EventLog, "Context", local[t].SearchTerm)
                             /\ EventLog' = EventLog))

\* C13: every operation that reads or writes EventLog (GetEventLog among
\* them) holds the mutex for as long as it accesses the array, so no thread
\* writes the array while another thread reads it.
C13_AccessUnderMutex ==
    /\ \A t \in Threads : (Mutating(t) \/ Reading(t)) => Mutex = t
    /\ \A t \in Threads : \A u \in Threads \ {t} : ~(Mutating(t) /\ Reading(u))

\* C14: under any interleaving of LogEvent and ClearLog from several threads
\* no append is lost or duplicated: the log holds exactly the entries whose
\* Add completed since the last ClearLog took effect, GetEventCount returns
\* their number, and ClearLog leaves the log empty when it takes effect.
C14_NoAppendLostOrDuplicated ==
    /\ Len(EventLog) = liveAppends
    /\ \A t \in Threads :
          /\ pc[t] = "Add" =>
                ~ENABLED (AddStore(t) /\ EventLog' # Append(EventLog, local[t].Entry))
          /\ pc[t] = "ClearLog" => ~ENABLED (Empty(t) /\ EventLog' # <<>>)
          /\ pc[t] = "GetEventCount" => ~ENABLED (Num(t) /\ out'.value # liveAppends)

\* All calls have returned, the last of them a GetEventCount that answered
\* 2, after two threads have each added an entry.
C14_Witness ==
    /\ \A t \in Threads : pc[t] = "idle"
    /\ out.op = "GetEventCount"
    /\ out.value = 2
    /\ liveAppends = 2
    /\ Len(EventLog) = 2

\* C15: the log is append-only between ClearLog calls: a step changes the
\* log only by the Add of an accepted LogEvent, which puts exactly its entry
\* at the end and leaves the entries before it as they were, or by the Empty
\* of a ClearLog; every other step leaves the log as it is.
C15_AppendOnly ==
    [][\/ EventLog' = EventLog
       \/ \E t \in Threads :
             /\ pc[t] = "Add" /\ pc'[t] = "idle"
             /\ EventLog' = Append(EventLog, local[t].Entry)
       \/ \E t \in Threads :
             /\ pc[t] = "ClearLog" /\ pc'[t] = "idle"
             /\ EventLog' = <<>>]_vars

\* An export has just succeeded on a log of two different entries, the later
\* one at the end.
C15_Witness ==
    /\ out.op = "ExportLogToCSV"
    /\ out.value = TRUE
    /\ Len(EventLog) = 2
    /\ EventLog[1].EventName # EventLog[2].EventName
    /\ liveAppends = 2

\* C16: with a clock that never runs backwards, the entries of the log are
\* in non-decreasing GameTime order in every reachable state, whatever the
\* interleaving of the LogEvent calls of concurrent threads.
C16_LogOrderedByGameTime ==
    \A i \in DOMAIN EventLog : \A j \in DOMAIN EventLog :
        i < j => EventLog[i].GameTime <= EventLog[j].GameTime

\* C17: ExportLogToCSV returns false and calls no SaveStringToFile when the
\* log is empty; on a non-empty log it calls SaveStringToFile exactly once
\* and returns true exactly if that call succeeded; in every case the log is
\* the same after the call as before.
C17_ExportResult ==
    \A t \in Threads :
        /\ pc[t] = "ExportLogToCSV" =>
              ~ENABLED (/\ Export(t)
                        /\ ~(/\ EventLog' = EventLog
                             /\ IF Len(EventLog) = 0
                                THEN /\ out'.t = t /\ out'.op = "ExportLogToCSV"
                                     /\ out'.value = FALSE /\ out'.saves = <<>>
                                     /\ pc'[t] = "idle"
                                ELSE out' = NoOutput /\ pc'[t] = "CSVContent"))
        /\ pc[t] = "CSVContent" =>
              /\ Len(EventLog) > 0
              /\ ~ENABLED (/\ SaveCSV(t)
                           /\ ~(/\ EventLog' = EventLog
                                /\ out'.t = t /\ out'.op = "ExportLogToCSV"
                                /\ Len(out'.saves) = 1
                                /\ out'.value = out'.saves[1].bSaved
                                /\ pc'[t] = "idle"))

\* An export of a non-empty log has just returned false after its one
\* SaveStringToFile call failed.
C17_Witness ==
    /\ out.op = "ExportLogToCSV"
    /\ out.value = FALSE
    /\ Len(out.saves) = 1
    /\ ~out.saves[1].bSaved
    /\ Len(EventLog) > 0

\* The four fields of the header row.
HeaderRow == <<<<"GameTime">>, <<"EventName">>, <<"Context">>, <<"UTC_Timestamp">>>>

\* C18: export round trip: whatever the names and contexts of the N entries
\* (commas, double quotes and line breaks included), reading the exported
\* text back gives the header row followed by exactly N rows, in log order,
\* whose name and context fields are the logged ones.
C18_ExportRoundTrip ==
    out.op = "ReadBack" =>
        /\ Len(out.value) = Len(EventLog) + 1
        /\ out.value[1] = HeaderRow
        /\ \A i \in DOMAIN EventLog :
              /\ Len(out.value[i + 1]) = Len(HeaderRow)
              /\ out.value[i + 1][2] = EventLog[i].EventName
              /\ out.value[i + 1][3] = EventLog[i].Context

\* What a field adds to the estimate as stated: count times element size
\* for a sequence, nothing for a sequence of references or a single
\* reference, the allocated size for a string, the width for any other
\* field; a name, which is kept in the global name table, is taken to add
\* nothing.
StatedFieldSize(Property) ==
    IF Property.kind = "Array" /\ Property.inner = "Object" THEN 0
    ELSE IF Property.kind = "Name" THEN 0
    ELSE IF Property.kind = "Array" THEN Len(Property.elems) * Property.size
    ELSE IF Property.kind = "Str" THEN Property.size
    ELSE IF Property.kind = "Object" THEN 0
    ELSE Property.size

RECURSIVE StatedFieldsSize(_, _)
StatedFieldsSize(Props, p) ==
    IF p > Len(Props) THEN 0
    ELSE StatedFieldSize(Props[p]) + StatedFieldsSize(Props, p + 1)

\* C19: the size estimate of a non-null object is the base overhead plus,
\* over its reflected fields, count times element size for a homogeneous
\* sequence, the allocated size for a text field, zero for a reference field
\* (a single reference or a sequence of references) and the declared width
\* for any other field.
C19_EstimateIsStatedSum ==
    \A i \in DOMAIN CachedMemoryInfo :
        CachedMemoryInfo[i].MemoryBytes =
            UObjectBaseSize + StatedFieldsSize(fields[CachedMemoryInfo[i].TrackedObject], 1)

\* The bytes of an object's own storage, from its own property list alone:
\* the base, the elements of its sequences, its strings and its scalars.
RECURSIVE OwnFieldsSize(_, _)
OwnFieldsSize(Props, p) ==
    IF p > Len(Props) THEN 0
    ELSE (IF Props[p].kind = "Array" THEN Len(Props[p].elems) * Props[p].size
          ELSE IF Props[p].kind \in {"Str", "Pod"} THEN Props[p].size
          ELSE 0)
         + OwnFieldsSize(Props, p + 1)

C21_CountPerRecordIsOwnReach ==
    \A i \in DOMAIN CachedMemoryInfo :
        CachedMemoryInfo[i].NumReferencedObjects =
            Cardinality(Reachable(CachedMemoryInfo[i].TrackedObject))

\* A pass has sampled two roots that share a referent, and both records
\* count the root and the shared object.
C21_Witness ==
    \E i \in DOMAIN CachedMemoryInfo : \E j \in DOMAIN CachedMemoryInfo :
        \E shared \in HeapObjects :
            /\ i # j
            /\ shared \notin {CachedMemoryInfo[i].TrackedObject, CachedMemoryInfo[j].TrackedObject}
            /\ shared \in References(CachedMemoryInfo[i].TrackedObject)
            /\ shared \in References(CachedMemoryInfo[j].TrackedObject)
            /\ CachedMemoryInfo[i].NumReferencedObjects = 2
            /\ CachedMemoryInfo[j].NumReferencedObjects = 2

\* C22: ExportLogToCSV tests for emptiness, reads the entries and writes the
\* file inside one critical section. Whatever LogEvent and ClearLog calls
\* other threads have started, a call that has passed the emptiness test
\* holds the mutex, the log is still the log the test saw, and the text it
\* saves is the header followed by the rows of exactly that log: never the
\* header alone.
C22_ExportIsOneInstant ==
    \A t \in Threads :
        pc[t] = "CSVContent" =>
            /\ Mutex = t
            /\ EventLog = local[t].Seen
            /\ ~ENABLED (/\ SaveCSV(t)
                         /\ ~(/\ Len(out'.saves) = 1
                              /\ out'.saves[1].Text = CSVContent(local[t].Seen)
                              /\ out'.saves[1].Text # CSVHeader))

\* An export has just written its file while another thread's LogEvent or
\* ClearLog call was waiting for the mutex.
C22_Witness ==
    /\ out.op = "ExportLogToCSV"
    /\ Len(out.saves) = 1
    /\ out.saves[1].Text = CSVContent(EventLog)
    /\ \E u \in Threads \ {out.t} :
          /\ pc[u] = "lock"
          /\ local[u].op \in {"LogEvent", "ClearLog"}

C24_StartStopKeepAccumulator ==
    [][((\E SamplingInterval \in StartArgs : StartTracking(SamplingInterval)) \/ StopTracking)
          => /\ TimeAccumulator' = TimeAccumulator
             /\ TrackedObjects' = TrackedObjects
             /\ CachedMemoryInfo' = CachedMemoryInfo]_vars

\* StartTracking found the tick stopped with time in the accumulator, and
\* the first sampling pass after it has run when less than the interval it
\* set had been ticked.
C24_Witness ==
    /\ sinceStart.started
    /\ sinceStart.resumed
    /\ sinceStart.sampled
    /\ sinceStart.elapsed <= MaxAccum
    /\ sinceStart.elapsed < SampleInterval
    /\ TimeAccumulator = 0

\* C25: with DeltaTime >= 0 and the interval left as it is, the accumulator
\* stays in the range 0 <= TimeAccumulator < SampleInterval: it starts there,
\* every step that does not change the interval keeps it there, and a tick
\* whose addition reaches the interval leaves exactly zero, whatever the
\* excess was.
C25_AccumulatorBelowInterval ==
    /\ 0 <= TimeAccumulator /\ TimeAccumulator < SampleInterval
    /\ [][(/\ SampleInterval' = SampleInterval
           /\ 0 <= TimeAccumulator /\ TimeAccumulator < SampleInterval)
             => /\ 0 <= TimeAccumulator' /\ TimeAccumulator' < SampleInterval'
                /\ \A DeltaTime \in DeltaTimes :
                      (TickComponent(DeltaTime) /\ SampleIsDue(DeltaTime))
                          => TimeAccumulator' = 0]_vars

\* The first sampling pass after a StartTracking call has run on a tick that
\* took the accumulator above the interval, and the accumulator is zero.
C25_Witness ==
    /\ sinceStart.sampled
    /\ sinceStart.over
    /\ TimeAccumulator = 0
    /\ lastPass # <<>>

====
